---- MODULE Spec2Model ----
(***************************************************************************)
(* A model of grass_crypt: the passphrase envelope around the cryptor      *)
(* block cipher (interfaces.py, tools.py, _engine.py).                     *)
(*                                                                         *)
(* Python values are records [t |-> type name, v |-> sequence of naturals]:*)
(*   str        v = the code points                                        *)
(*   bytes      v = the bytes                                              *)
(*   int        v = <<n>>                                                  *)
(*   NoneType   v = <<>>                                                   *)
(*   EncryptMode v = the code points of the member's name                  *)
(* A call's outcome is a record [exc, val, ...]: exc = "" when the call    *)
(* returned val, else the name of the exception it raised.                 *)
(***************************************************************************)
EXTENDS Integers, Sequences, FiniteSets, TLC

VARIABLES call, ret, eff, fs, src

vars == <<call, ret, eff, fs, src>>

\* ------------------------------------------------------------------ bounds

\* Longest plaintext (code points or bytes) handed to encrypt.
MaxLen == 2

\* Number of distinct outcomes of os.urandom the model draws from.
MaxSalts == 2

\* ------------------------------------------------------- program constants

\* blake2b.SALT_SIZE
SALT_SIZE == 16

\* digest_size's default
DIGEST_SIZE == 32

\* the length of the metadata string read_meta requires
META_LEN == 54

\* ------------------------------------------------------------ Python values

PyStr(s) == [t |-> "str", v |-> s]

PyBytes(b) == [t |-> "bytes", v |-> b]

PyInt(n) == [t |-> "int", v |-> <<n>>]

PyNone == [t |-> "NoneType", v |-> <<>>]

PyMode(name) == [t |-> "EncryptMode", v |-> name]

\* s[a:b] of Python for 0 <= a <= b (0-based, end exclusive, clipped).
Slice(s, a, b) ==
    LET hi == IF b < Len(s) THEN b ELSE Len(s)
    IN  IF a >= hi THEN <<>> ELSE [i \in 1..(hi - a) |-> s[a + i]]

\* s[a:]
SliceFrom(s, a) == Slice(s, a, Len(s))

\* ------------------------------------------------------------------- UTF-8

IsSurrogate(c) == c >= 55296 /\ c <= 57343

\* The UTF-8 bytes of one code point (not a surrogate).
EncodeCp(c) ==
    IF c < 128 THEN <<c>>
    ELSE IF c < 2048 THEN <<192 + (c \div 64), 128 + (c % 64)>>
    ELSE IF c < 65536
         THEN <<224 + (c \div 4096), 128 + ((c \div 64) % 64), 128 + (c % 64)>>
    ELSE <<240 + (c \div 262144), 128 + ((c \div 4096) % 64),
           128 + ((c \div 64) % 64), 128 + (c % 64)>>

RECURSIVE EncodeAll(_)
EncodeAll(s) == IF s = <<>> THEN <<>> ELSE EncodeCp(Head(s)) \o EncodeAll(Tail(s))

\* str.encode('utf-8'): strict, a lone surrogate raises UnicodeEncodeError.
str_encode(s) ==
    IF \E i \in 1..Len(s) : IsSurrogate(s[i])
    THEN [exc |-> "UnicodeEncodeError", val |-> <<>>]
    ELSE [exc |-> "", val |-> EncodeAll(s)]

IsCont(b) == b >= 128 /\ b <= 191

\* The length of the sequence the lead byte b0 starts, 0 when it starts none.
SeqLen(b0) ==
    IF b0 < 128 THEN 1
    ELSE IF b0 >= 194 /\ b0 <= 223 THEN 2
    ELSE IF b0 >= 224 /\ b0 <= 239 THEN 3
    ELSE IF b0 >= 240 /\ b0 <= 244 THEN 4
    ELSE 0

\* The code point of the sequence of n bytes at i.
CpAt(b, i, n) ==
    IF n = 1 THEN b[i]
    ELSE IF n = 2 THEN (b[i] - 192) * 64 + (b[i + 1] - 128)
    ELSE IF n = 3
         THEN (b[i] - 224) * 4096 + (b[i + 1] - 128) * 64 + (b[i + 2] - 128)
    ELSE (b[i] - 240) * 262144 + (b[i + 1] - 128) * 4096
         + (b[i + 2] - 128) * 64 + (b[i + 3] - 128)

\* A well-formed sequence starts at i: its continuation bytes follow, and it
\* is the shortest form of a code point that is no surrogate.
WellFormedAt(b, i) ==
    /\ SeqLen(b[i]) > 0
    /\ i + SeqLen(b[i]) - 1 <= Len(b)
    /\ \A k \in 1..(SeqLen(b[i]) - 1) : IsCont(b[i + k])
    /\ SeqLen(b[i]) = 3 => /\ CpAt(b, i, 3) >= 2048
                           /\ ~IsSurrogate(CpAt(b, i, 3))
    /\ SeqLen(b[i]) = 4 => /\ CpAt(b, i, 4) >= 65536
                           /\ CpAt(b, i, 4) <= 1114111

\* The continuation byte at i belongs to the sequence of the nearest byte
\* before it that is none.
Owned(b, i) ==
    \E j \in 1..(i - 1) : /\ ~IsCont(b[j])
                          /\ \A k \in (j + 1)..i : IsCont(b[k])
                          /\ i - j < SeqLen(b[j])

\* b is UTF-8.
IsUtf8(b) ==
    \A i \in 1..Len(b) : IF IsCont(b[i]) THEN Owned(b, i) ELSE WellFormedAt(b, i)

\* The code points of b, which is UTF-8: one for each byte that starts a sequence.
Utf8Decoded(b) ==
    LET IsStart(i) == ~IsCont(b[i])
        starts == SelectSeq([i \in 1..Len(b) |-> i], IsStart)
    IN  [k \in 1..Len(starts) |-> CpAt(b, starts[k], SeqLen(b[starts[k]]))]

\* bytes.decode('utf-8'): strict, raises UnicodeDecodeError.
bytes_decode(b) ==
    IF IsUtf8(b) THEN [exc |-> "", val |-> Utf8Decoded(b)]
    ELSE [exc |-> "UnicodeDecodeError", val |-> <<>>]

\* ------------------------------------------------------------------ base64

B64Char(i) ==
    IF i < 26 THEN 65 + i
    ELSE IF i < 52 THEN 97 + (i - 26)
    ELSE IF i < 62 THEN 48 + (i - 52)
    ELSE IF i = 62 THEN 43 ELSE 47

\* The 6-bit value of a base64 character, 64 for any other byte.
B64Val(ch) ==
    IF ch >= 65 /\ ch <= 90 THEN ch - 65
    ELSE IF ch >= 97 /\ ch <= 122 THEN ch - 97 + 26
    ELSE IF ch >= 48 /\ ch <= 57 THEN ch - 48 + 52
    ELSE IF ch = 43 THEN 62
    ELSE IF ch = 47 THEN 63
    ELSE 64

\* The padding character '='.
B64Pad == 61

\* Byte j (0-based) of b, 0 past its end.
B64In(b, j) == IF j < Len(b) THEN b[j + 1] ELSE 0

\* Character k (0-based) of the encoding of b.
B64Out(b, k) ==
    LET g == k \div 4
        r == k % 4
    IN  IF r = 0 THEN B64Char(B64In(b, 3 * g) \div 4)
        ELSE IF r = 1
             THEN B64Char((B64In(b, 3 * g) % 4) * 16 + (B64In(b, 3 * g + 1) \div 16))
        ELSE IF r = 2
             THEN IF 3 * g + 1 >= Len(b) THEN B64Pad
                  ELSE B64Char((B64In(b, 3 * g + 1) % 16) * 4
                               + (B64In(b, 3 * g + 2) \div 64))
        ELSE IF 3 * g + 2 >= Len(b) THEN B64Pad
             ELSE B64Char(B64In(b, 3 * g + 2) % 64)

\* base64.b64encode: every 3 bytes give 4 characters, the last group padded.
b64encode(b) == [k \in 1..(4 * ((Len(b) + 2) \div 3)) |-> B64Out(b, k - 1)]

IsB64Data(ch) == B64Val(ch) < 64

IsB64Sym(ch) == ch = B64Pad \/ IsB64Data(ch)

\* The place in its group of the symbol at i: the data characters before it.
B64QuadPos(t, i) == Cardinality({k \in 1..(i - 1) : t[k] # B64Pad}) % 4

\* The '=' that end at i in a row.
B64Pads(t, i) == Cardinality({k \in 1..i : \A j \in k..i : t[j] = B64Pad})

\* The '=' that end the input: after 2 data characters of a group with one
\* more '=' before it, or after 3.
B64Stops(t) ==
    {i \in 1..Len(t) : /\ t[i] = B64Pad
                       /\ B64QuadPos(t, i) >= 2
                       /\ B64QuadPos(t, i) + B64Pads(t, i) >= 4}

\* Where the decoder stops reading t: the first such '=', else past the end.
B64End(t) ==
    IF B64Stops(t) = {} THEN Len(t) + 1
    ELSE CHOOSE i \in B64Stops(t) : \A j \in B64Stops(t) : i <= j

\* Byte j (0-based) the data characters d decode to.
B64Byte(d, j) ==
    LET g == j \div 3
        r == j % 3
    IN  IF r = 0 THEN B64Val(d[4 * g + 1]) * 4 + (B64Val(d[4 * g + 2]) \div 16)
        ELSE IF r = 1
             THEN (B64Val(d[4 * g + 2]) % 16) * 16 + (B64Val(d[4 * g + 3]) \div 4)
        ELSE (B64Val(d[4 * g + 3]) % 4) * 64 + B64Val(d[4 * g + 4])

\* The bytes of the data characters d; a group left open without the
\* padding that stops the decoder raises binascii.Error.
B64Bytes(d, stopped) ==
    IF ~stopped /\ Len(d) % 4 # 0
    THEN [exc |-> "binascii.Error", val |-> <<>>]
    ELSE [exc |-> "",
          val |-> [j \in 1..(3 * (Len(d) \div 4)
                             + (IF Len(d) % 4 = 0 THEN 0 ELSE (Len(d) % 4) - 1))
                   |-> B64Byte(d, j - 1)]]

\* The symbols t (alphabet and '=') decoded.
B64Symbols(t) ==
    B64Bytes(SelectSeq(Slice(t, 0, B64End(t) - 1), IsB64Data), B64End(t) <= Len(t))

\* base64.b64decode(s) with its default validate=False (binascii.a2b_base64
\* without strict_mode): bytes outside the alphabet are skipped.
b64decode(s) == B64Symbols(SelectSeq(s, IsB64Sym))

\* ------------------------------------------------------ outcomes of a call

\* What a call did besides returning: calls of os.urandom, of
\* get_hash_blake2b, of cryptor's do_encrypt and do_decrypt, warnings issued,
\* and calls of save_file.
NoEff == [urandom |-> 0, derive |-> 0, do_encrypt |-> 0, do_decrypt |-> 0,
          warn |-> 0, save |-> 0]

EffAdd(a, b) ==
    [urandom |-> a.urandom + b.urandom, derive |-> a.derive + b.derive,
     do_encrypt |-> a.do_encrypt + b.do_encrypt,
     do_decrypt |-> a.do_decrypt + b.do_decrypt,
     warn |-> a.warn + b.warn, save |-> a.save + b.save]

\* An empty dict.
EmptyDict == <<>>

\* return v
Return(v, e) ==
    [exc |-> "", cause |-> "", err |-> "", val |-> v, meta |-> EmptyDict, eff |-> e]

\* raise exc [from cause]
Raise(x, c, e) ==
    [exc |-> x, cause |-> c, err |-> "", val |-> PyNone, meta |-> EmptyDict, eff |-> e]

\* ------------------------------------------------------------- EncryptMode

\* 'ECB', 'CBC', 'CFB', 'OFB', 'CTR' as code points.
S_ECB == <<69, 67, 66>>

S_CBC == <<67, 66, 67>>

S_CFB == <<67, 70, 66>>

S_OFB == <<79, 70, 66>>

S_CTR == <<67, 84, 82>>

\* EncryptMode.__members__, in definition order: name and value of each member.
Members ==
    << [name |-> S_ECB, value |-> S_ECB],
       [name |-> S_CBC, value |-> S_CBC],
       [name |-> S_CFB, value |-> S_CFB],
       [name |-> S_OFB, value |-> S_OFB],
       [name |-> S_CTR, value |-> S_CTR] >>

MemberNames == {Members[i].name : i \in DOMAIN Members}

\* The members as Python values.
Modes == {PyMode(n) : n \in MemberNames}

\* member.value
ModeValue(m) ==
    Members[CHOOSE i \in DOMAIN Members : Members[i].name = m.v].value

\* EncryptMode(x): the member whose value is x, ValueError when there is none.
EnumCall(x) ==
    IF x.t = "str" /\ \E i \in DOMAIN Members : Members[i].value = x.v
    THEN Return(PyMode(Members[CHOOSE i \in DOMAIN Members :
                                   Members[i].value = x.v].name), NoEff)
    ELSE Raise("ValueError", "", NoEff)

\* EncryptMode.as_bytes
as_bytes(m) == str_encode(ModeValue(m)).val

\* EncryptMode._raise_unknown
raise_unknown == Raise("ValueError", "", NoEff)

\* EncryptMode.me_from_value: the first member whose value is `value`, looked
\* up again through its name.
me_from_value(value) ==
    LET hits == {i \in DOMAIN Members :
                    value.t = "str" /\ Members[i].value = value.v}
    IN  IF hits # {}
        THEN EnumCall(PyStr(Members[CHOOSE i \in hits :
                                       \A j \in hits : i <= j].name))
        ELSE raise_unknown

\* me_from_name that returns what _raise_unknown returns, None.
me_from_name_none(name) ==
    IF name.t = "str" /\ name.v \in MemberNames
    THEN EnumCall(name)
    ELSE Return(PyNone, NoEff)

\* EncryptMode.me_from_name
me_from_name(name) ==
    IF name.t = "str" /\ name.v \in MemberNames
    THEN EnumCall(name)
    ELSE raise_unknown

\* ---------------------------------------------------------- key derivation

RECURSIVE WSum(_, _, _)
WSum(s, i, w) == IF i > Len(s) THEN 0 ELSE s[i] * (w * i + 1) + WSum(s, i + 1, w)

\* hashlib.blake2b(data, digest_size=n, salt=salt).digest(): a stand-in that
\* is deterministic, n bytes long and depends on the data, on n and on the
\* salt (zero-padded to SALT_SIZE, as BLAKE2 pads it).
blake2b(data, n, salt) ==
    LET mix == WSum(data, 1, 2) + 5 * WSum(salt, 1, 3) + 131 * Len(data) + 7 * n
    IN  [k \in 1..n |-> (mix * (2 * k + 1) + 37 * k) % 256]

\* get_salt: os.urandom(blake2b.SALT_SIZE), rnd being what the generator
\* yields this time.
get_salt(rnd) == [i \in 1..SALT_SIZE |-> (rnd * 57 + i * 11) % 256]

\* The tuple get_hash_blake2b returns, or the exception it raises.
Hashed(exc, hash, salt, e) == [exc |-> exc, hash |-> hash, salt |-> salt, eff |-> e]

\* The return statement of get_hash_blake2b: value.encode('utf-8') is hashed
\* with salt s.
hash_return(data, n, s, e) ==
    IF data.exc # "" THEN Hashed(data.exc, <<>>, <<>>, e)
    ELSE IF Len(s) > SALT_SIZE THEN Hashed("ValueError", <<>>, <<>>, e)
    ELSE Hashed("", blake2b(data.val, n, s), s, e)

\* get_hash_blake2b(value, digest_size=, salt=): the hash and the salt;
\* rnd is what os.urandom yields if asked.
get_hash_blake2b(value, digest_size, salt, rnd) ==
    IF value.t # "str" \/ digest_size.t # "int"
    THEN Hashed("TypeError", <<>>, <<>>, [NoEff EXCEPT !.derive = 1])
    ELSE IF ~(1 <= digest_size.v[1] /\ digest_size.v[1] <= 64)
    THEN Hashed("ValueError", <<>>, <<>>, [NoEff EXCEPT !.derive = 1])
    ELSE IF salt.t = "NoneType"
    THEN hash_return(str_encode(value.v), digest_size.v[1], get_salt(rnd),
                     [NoEff EXCEPT !.derive = 1, !.urandom = 1])
    ELSE hash_return(str_encode(value.v), digest_size.v[1], salt.v,
                     [NoEff EXCEPT !.derive = 1])

\* ---------------------------------------------------------------- _engine

\* cryptor.do_encrypt: the cipher, a byte-wise keyed transform that
\* do_decrypt inverts under the same key.
do_encrypt(plaintext, key) ==
    [i \in 1..Len(plaintext) |->
        (plaintext[i] + key[((i - 1) % Len(key)) + 1] + i) % 256]

\* cryptor.do_decrypt
do_decrypt(ciphertext, key) ==
    [i \in 1..Len(ciphertext) |->
        (ciphertext[i] + 512 - key[((i - 1) % Len(key)) + 1] - i) % 256]

\* _mode_warning: one RuntimeWarning unless the mode is ECB.
mode_warning(mode) == IF mode # PyMode(S_ECB) THEN 1 ELSE 0

\* encrypting_rust: [val, eff]
encrypting_rust(plaintext, code, mode) ==
    [val |-> do_encrypt(plaintext, code),
     eff |-> [NoEff EXCEPT !.warn = mode_warning(mode), !.do_encrypt = 1]]

\* decrypting_rust: [val, eff]
decrypting_rust(ciphertext, code, mode) ==
    [val |-> do_decrypt(ciphertext, code),
     eff |-> [NoEff EXCEPT !.warn = mode_warning(mode), !.do_decrypt = 1]]

\* -------------------------------------------------------------- interfaces

\* type.__name__ of str and of bytes, as code points.
TypeName(t) ==
    IF t = "str" THEN <<115, 116, 114>>
    ELSE IF t = "bytes" THEN <<98, 121, 116, 101, 115>>
    ELSE <<105, 110, 116>>

\* str.upper on ASCII letters.
Upper(s) == [i \in 1..Len(s) |-> IF s[i] >= 97 /\ s[i] <= 122 THEN s[i] - 32 ELSE s[i]]

\* 'STR' and 'BYT', the keys of read_meta's table.
S_STR == <<83, 84, 82>>

S_BYT == <<66, 89, 84>>

\* validate_inputs_data without the test for an empty code.
validate_inputs_data_nonempty(code, mode) ==
    IF code.t # "str" THEN "ValueError"
    ELSE IF mode.t # "EncryptMode" THEN "ValueError"
    ELSE ""

\* validate_inputs_data: the exception it raises, "" when it returns.
validate_inputs_data(code, mode) ==
    IF code.t # "str" \/ code.v = <<>> THEN "ValueError"
    ELSE IF mode.t # "EncryptMode" THEN "ValueError"
    ELSE ""

\* make_meta with the hash put before the salt.
make_meta_swapped(plaintext_type, hash_code, salt, mode) ==
    IF plaintext_type = "str" \/ plaintext_type = "bytes"
    THEN Return(PyBytes(str_encode(Upper(Slice(TypeName(plaintext_type), 0, 3))).val
                        \o as_bytes(mode) \o hash_code \o salt), NoEff)
    ELSE Raise("ValueError", "", NoEff)

\* make_meta(plaintext_type=, hash_code=, salt=, mode=): type tag, mode tag,
\* salt, hash, concatenated.
make_meta(plaintext_type, hash_code, salt, mode) ==
    IF plaintext_type = "str" \/ plaintext_type = "bytes"
    THEN Return(PyBytes(str_encode(Upper(Slice(TypeName(plaintext_type), 0, 3))).val
                        \o as_bytes(mode) \o salt \o hash_code), NoEff)
    ELSE Raise("ValueError", "", NoEff)

\* The (error, b'', {}) read_meta returns from its except clause.
MetaError(x) ==
    [exc |-> "", cause |-> "", err |-> x, val |-> PyBytes(<<>>),
     meta |-> EmptyDict, eff |-> NoEff]

\* The (None, ciphertext[54:], meta_data) read_meta returns.
meta_return(ciphertext, source_type, mode) ==
    IF mode.exc # "" THEN MetaError(mode.exc)
    ELSE [exc |-> "", cause |-> "", err |-> "",
          val |-> PyBytes(SliceFrom(ciphertext, META_LEN)),
          meta |-> [source_type |-> source_type,
                    mode |-> mode.val,
                    salt |-> Slice(ciphertext, 6, 22),
                    hash_code |-> Slice(ciphertext, 22, META_LEN)],
          eff |-> NoEff]

\* The 'mode' item: EncryptMode.me_from_value(ciphertext[3:6].decode('utf-8')).
meta_mode(ciphertext, source_type, mtag) ==
    IF mtag.exc # "" THEN MetaError(mtag.exc)
    ELSE meta_return(ciphertext, source_type, me_from_value(PyStr(mtag.val)))

\* source_type: {'STR': str, 'BYT': bytes}[ciphertext[:3].decode('utf-8')].
meta_type(ciphertext, tag) ==
    IF tag.exc # "" THEN MetaError(tag.exc)
    ELSE IF tag.val \notin {S_STR, S_BYT} THEN MetaError("KeyError")
    ELSE meta_mode(ciphertext, IF tag.val = S_STR THEN "str" ELSE "bytes",
                   bytes_decode(Slice(ciphertext, 3, 6)))

\* read_meta without the test of the length.
read_meta_any_length(ciphertext) ==
    meta_type(ciphertext, bytes_decode(Slice(ciphertext, 0, 3)))

\* read_meta(ciphertext=): never raises; err is the exception it caught ("" for
\* None), val the bytes after the metadata string, meta the dict.
read_meta(ciphertext) ==
    IF Len(ciphertext) < META_LEN THEN MetaError("ValueError")
    ELSE meta_type(ciphertext, bytes_decode(Slice(ciphertext, 0, 3)))

\* encrypt's return: base64 of the metadata string and the ciphertext.
encrypt_return(meta, enc, e) ==
    IF meta.exc # "" THEN Raise(meta.exc, "", EffAdd(e, enc.eff))
    ELSE Return(PyBytes(b64encode(meta.val.v \o enc.val)), EffAdd(e, enc.eff))

\* encrypt from encrypting_rust on: data is plaintext as bytes, h the hash
\* of the code.
encrypt_data(t, data, h, mode) ==
    IF data.exc # "" THEN Raise(data.exc, "", h.eff)
    ELSE encrypt_return(make_meta(t, h.hash, h.salt, mode),
                        encrypting_rust(data.val, h.hash, mode), h.eff)

\* encrypt after get_hash_blake2b(code).
encrypt_hashed(plaintext, h, mode) ==
    IF h.exc # "" THEN Raise(h.exc, "", h.eff)
    ELSE encrypt_data(plaintext.t,
                      IF plaintext.t = "str" THEN str_encode(plaintext.v)
                      ELSE [exc |-> "", val |-> plaintext.v],
                      h, mode)

\* encrypt(plaintext, code=, mode=); rnd is what os.urandom yields if asked.
encrypt(plaintext, code, mode, rnd) ==
    IF plaintext.t \notin {"str", "bytes"} \/ plaintext.v = <<>>
    THEN Raise("ValueError", "", NoEff)
    ELSE IF validate_inputs_data(code, mode) # ""
    THEN Raise(validate_inputs_data(code, mode), "", NoEff)
    ELSE encrypt_hashed(plaintext,
                        get_hash_blake2b(code, PyInt(DIGEST_SIZE), PyNone, rnd), mode)

\* decrypt's return that decodes whatever the source type.
decrypt_return_text(source_type, dec, e) ==
    IF bytes_decode(dec.val).exc # ""
    THEN Raise(bytes_decode(dec.val).exc, "", EffAdd(e, dec.eff))
    ELSE Return(PyStr(bytes_decode(dec.val).val), EffAdd(e, dec.eff))

\* decrypt's return: bytes as they are, text decoded.
decrypt_return(source_type, dec, e) ==
    IF source_type = "bytes" THEN Return(PyBytes(dec.val), EffAdd(e, dec.eff))
    ELSE IF bytes_decode(dec.val).exc # ""
    THEN Raise(bytes_decode(dec.val).exc, "", EffAdd(e, dec.eff))
    ELSE Return(PyStr(bytes_decode(dec.val).val), EffAdd(e, dec.eff))

\* decrypt_hashed without the comparison with the stored hash.
decrypt_hashed_unchecked(m, h) ==
    IF h.exc # "" THEN Raise(h.exc, "", h.eff)
    ELSE decrypt_return(m.meta.source_type,
                        decrypting_rust(m.val.v, h.hash, m.meta.mode), h.eff)

\* decrypt after get_hash_blake2b(code, salt=meta_data['salt']): the
\* comparison with the stored hash, then decrypting_rust.
decrypt_hashed(m, h) ==
    IF h.exc # "" THEN Raise(h.exc, "", h.eff)
    ELSE IF h.hash # m.meta.hash_code THEN Raise("MetaStringError", "", h.eff)
    ELSE decrypt_return(m.meta.source_type,
                        decrypting_rust(m.val.v, h.hash, m.meta.mode), h.eff)

\* decrypt after read_meta.
decrypt_meta(m, code) ==
    IF m.err # "" THEN Raise("MetaStringError", m.err, NoEff)
    ELSE decrypt_hashed(m, get_hash_blake2b(code, PyInt(DIGEST_SIZE),
                                            PyBytes(m.meta.salt), 0))

\* decrypt after base64.b64decode.
decrypt_raw(raw, code) ==
    IF raw.exc # "" THEN Raise(raw.exc, "", NoEff)
    ELSE decrypt_meta(read_meta(raw.val), code)

\* decrypt(ciphertext, code=, **kw): kw are the names of any other keyword
\* arguments the caller passes; the signature takes none.
decrypt(ciphertext, code, kw) ==
    IF kw # {} THEN Raise("TypeError", "", NoEff)
    ELSE IF ciphertext.t # "bytes" \/ ciphertext.v = <<>>
    THEN Raise("ValueError", "", NoEff)
    ELSE decrypt_raw(b64decode(ciphertext.v), code)

\* ------------------------------------------------------------------- tools

\* The path's file, None when there is none.
FileAt(files, path) == IF path \in DOMAIN files THEN files[path] ELSE PyNone

\* open(filepath, 'r').read(): the text of the file's bytes (UTF-8, the
\* locale's encoding).
read_text(text) ==
    IF text.exc # "" THEN Raise(text.exc, "", NoEff) ELSE Return(PyStr(text.val), NoEff)

\* load_file(filepath, binary=): the file's bytes, or its text;
\* FileNotFoundError when there is no such file.
load_file(files, filepath, binary) ==
    IF FileAt(files, filepath) = PyNone THEN Raise("FileNotFoundError", "", NoEff)
    ELSE IF binary THEN Return(FileAt(files, filepath), NoEff)
    ELSE read_text(bytes_decode(FileAt(files, filepath).v))

\* A call's outcome and the files after it.
WithFiles(r, files) == r @@ [fs |-> files]

\* file.write(data) in the file just opened for writing, which created or
\* emptied it; out is data as bytes.
write_file(files, filepath, out) ==
    IF out.exc # ""
    THEN WithFiles(Raise(out.exc, "", [NoEff EXCEPT !.save = 1]),
                   [files EXCEPT ![filepath] = PyBytes(<<>>)])
    ELSE WithFiles(Return(filepath, [NoEff EXCEPT !.save = 1]),
                   [files EXCEPT ![filepath] = PyBytes(out.val)])

\* save_file(filepath, data=, **kw): no keyword but data is taken.
save_file(files, filepath, data, kw) ==
    IF kw # {} THEN WithFiles(Raise("TypeError", "", NoEff), files)
    ELSE IF data.t \notin {"str", "bytes"}
    THEN WithFiles(Raise("TypeError", "", [NoEff EXCEPT !.save = 1]), files)
    ELSE write_file(files, filepath,
                    IF data.t = "bytes" THEN [exc |-> "", val |-> data.v]
                    ELSE str_encode(data.v))

\* The RuntimeWarning both file functions start with.
DevWarning == [NoEff EXCEPT !.warn = 1]

\* How a file function ended: step is the statement of its try block it
\* ended at.
Ended(r, e, files, step) == [r EXCEPT !.eff = e] @@ [fs |-> files, step |-> step]

\* except Exception as err: raise RuntimeError(...) from err
Wrapped(r, e, files, step) == Ended(Raise("RuntimeError", r.exc, e), e, files, step)

\* The file functions after save_file.
file_saved(saved, e) ==
    IF saved.exc # "" THEN Wrapped(saved, EffAdd(e, saved.eff), saved.fs, "save_file")
    ELSE Ended(saved, EffAdd(e, saved.eff), saved.fs, "return")

\* The path written to: output_path, input_path when it is None.
OutputPath(input_path, output_path) ==
    IF output_path = PyNone THEN input_path ELSE output_path

\* _encrypt_file after encrypt.
file_encrypted(files, path, encrypted_data) ==
    IF encrypted_data.exc # ""
    THEN Wrapped(encrypted_data, EffAdd(DevWarning, encrypted_data.eff), files, "encrypt")
    ELSE file_saved(save_file(files, path, encrypted_data.val, {}),
                    EffAdd(DevWarning, encrypted_data.eff))

\* _encrypt_file after load_file.
file_loaded_plain(files, path, file_data, code, mode, rnd) ==
    IF file_data.exc # "" THEN Wrapped(file_data, DevWarning, files, "load_file")
    ELSE file_encrypted(files, path, encrypt(file_data.val, code, mode, rnd))

\* _encrypt_file(input_path=, output_path=, code=, mode=, **kw)
encrypt_file(files, input_path, output_path, code, mode, kw, rnd) ==
    IF kw # {} THEN Ended(Raise("TypeError", "", NoEff), NoEff, files, "call")
    ELSE file_loaded_plain(files, OutputPath(input_path, output_path),
                           load_file(files, input_path, FALSE), code, mode, rnd)

\* _decrypt_file that has opened the output for writing before decrypt.
file_decrypted_opened(files, path, decrypted_data) ==
    IF decrypted_data.exc # ""
    THEN Wrapped(decrypted_data, EffAdd(DevWarning, decrypted_data.eff),
                 [files EXCEPT ![path] = PyBytes(<<>>)], "decrypt")
    ELSE file_saved(save_file(files, path, decrypted_data.val, {}),
                    EffAdd(DevWarning, decrypted_data.eff))

\* _decrypt_file after decrypt.
file_decrypted(files, path, decrypted_data) ==
    IF decrypted_data.exc # ""
    THEN Wrapped(decrypted_data, EffAdd(DevWarning, decrypted_data.eff), files, "decrypt")
    ELSE file_saved(save_file(files, path, decrypted_data.val, {}),
                    EffAdd(DevWarning, decrypted_data.eff))

\* _decrypt_file after load_file.
file_loaded_blob(files, path, file_data, code) ==
    IF file_data.exc # "" THEN Wrapped(file_data, DevWarning, files, "load_file")
    ELSE file_decrypted(files, path, decrypt(file_data.val, code, {}))

\* _decrypt_file(input_path=, output_path=, code=, **kw)
decrypt_file(files, input_path, output_path, code, kw) ==
    IF kw # {} THEN Ended(Raise("TypeError", "", NoEff), NoEff, files, "call")
    ELSE file_loaded_blob(files, OutputPath(input_path, output_path),
                          load_file(files, input_path, TRUE), code)

\* ------------------------------------------------------------------ inputs

\* Code points the texts are made of: 1, 2, 3 and 4 bytes of UTF-8, and a
\* lone surrogate, which a Python str may hold.
Cps == <<65, 233, 8364, 128512, 55296>>

\* Bytes the byte strings are made of; 255 is no UTF-8.
Bs == <<0, 65, 255>>

\* The n items of alphabet a from its item `start` on, cyclically.
Run(a, start, n) == [i \in 1..n |-> a[((start + i - 2) % Len(a)) + 1]]

Texts == {PyStr(Run(Cps, k, n)) : k \in DOMAIN Cps, n \in 0..MaxLen}

ByteStrings == {PyBytes(Run(Bs, k, n)) : k \in DOMAIN Bs, n \in 0..MaxLen}

\* Plaintexts: text, bytes (the empty ones included) and None.
Plaintexts == Texts \cup ByteStrings \cup {PyNone}

\* Passphrases: '', 'k', 'ék', a lone surrogate, and two values that are no str.
Codes == {PyStr(<<>>), PyStr(<<107>>), PyStr(<<233, 107>>), PyStr(<<55296>>),
          PyInt(7), PyBytes(<<107>>)}

\* Modes: the members, and two values that are no member.
ModeArgs == Modes \cup {PyStr(S_ECB), PyNone}

\* What os.urandom may yield.
Rnds == 1..MaxSalts

\* Other keyword arguments a caller may pass.
DecryptKw == {{}, {"ignore_mismatch"}}

FileKw == {{}, {"overwrite"}}

\* Strings looked up in the registry: the tags, near misses, and other types.
Lookups == {PyStr(Members[i].value) : i \in DOMAIN Members}
           \cup {PyStr(<<>>), PyStr(<<101, 99, 98>>), PyStr(<<69, 67>>),
                 PyStr(<<69, 67, 66, 32>>), PyStr(<<88, 88, 88>>),
                 PyBytes(S_ECB), PyNone, PyInt(0)}

\* Buffers made from the bytes raw of an envelope: kind names what was done.
Tampers(raw) ==
    { [kind |-> "none", buf |-> raw],
      [kind |-> "short", buf |-> Slice(raw, 0, META_LEN - 1)],
      [kind |-> "legacy", buf |-> Slice(raw, 0, 22) \o SliceFrom(raw, META_LEN)],
      [kind |-> "type", buf |-> <<88, 89, 90>> \o SliceFrom(raw, 3)],
      [kind |-> "type8", buf |-> <<255>> \o SliceFrom(raw, 1)],
      [kind |-> "mode", buf |-> Slice(raw, 0, 3) \o <<101, 99, 98>> \o SliceFrom(raw, 6)],
      [kind |-> "mode8", buf |-> Slice(raw, 0, 5) \o <<200>> \o SliceFrom(raw, 6)],
      [kind |-> "salt", buf |-> Slice(raw, 0, 6) \o <<(raw[7] + 1) % 256>>
                                \o SliceFrom(raw, 7)],
      [kind |-> "hash", buf |-> Slice(raw, 0, 22) \o <<(raw[23] + 1) % 256>>
                                \o SliceFrom(raw, 23)],
      [kind |-> "swap", buf |-> (IF Slice(raw, 0, 3) = S_STR THEN S_BYT ELSE S_STR)
                                \o SliceFrom(raw, 3)] }

\* Ciphertexts handed to decrypt when the last call returned the blob b.
Armored(b) ==
    { [kind |-> t.kind, buf |-> PyBytes(b64encode(t.buf))] : t \in Tampers(b64decode(b).val) }
    \cup { [kind |-> "cut", buf |-> PyBytes(Slice(b, 0, Len(b) - 1))],
           [kind |-> "newline", buf |-> PyBytes(Slice(b, 0, 4) \o <<10>> \o SliceFrom(b, 4))] }

\* Ciphertexts that come from no encrypt call.
Junk == { [kind |-> "junk", buf |-> x] :
            x \in {PyBytes(<<>>), PyBytes(<<81, 81, 61, 61>>), PyBytes(<<81>>),
                   PyStr(<<81, 81, 61, 61>>), PyNone} }

\* ------------------------------------------------------------------- state

\* call: the last call (op, positional values a, other keywords kw, and rnd,
\* what os.urandom yielded if asked); ret: how it ended; eff: what it did;
\* fs: the files; src: the call whose result the last call was given, and
\* what was done to that result before.
NoCall == [op |-> "", a |-> <<>>, kw |-> {}, rnd |-> 0]

NoSrc == [call |-> NoCall, kind |-> "", tail |-> <<>>]

Out(r) == [exc |-> r.exc, cause |-> r.cause, err |-> r.err, val |-> r.val,
           meta |-> r.meta, step |-> IF "step" \in DOMAIN r THEN r.step ELSE ""]

Called(op, a, kw, r, rnd) ==
    [op |-> op, a |-> a, kw |-> kw, rnd |-> IF r.eff.urandom > 0 THEN rnd ELSE 0]

\* No call yet.  The functions keep nothing between calls, so a behaviour
\* is one call, then possibly a call given the first one's result.
Idle == call = NoCall

\* The last call returned a blob: encrypt ended without raising.
HasBlob == call.op = "encrypt" /\ ret.exc = ""

\* The last call returned a metadata string.
HasMeta == call.op = "make_meta" /\ ret.exc = ""

\* The paths 'a' and 'b'.
Paths == {PyStr(<<97>>), PyStr(<<98>>)}

Init ==
    /\ call = NoCall
    /\ ret = Out(Return(PyNone, NoEff))
    /\ eff = NoEff
    /\ fs = [p \in Paths |-> PyNone]
    /\ src = NoSrc

\* ----------------------------------------------------------------- actions

\* The call op(a, **kw) ended as r; s is where its argument came from.
Finish(op, a, kw, r, rnd, s) ==
    /\ call' = Called(op, a, kw, r, rnd)
    /\ ret' = Out(r)
    /\ eff' = r.eff
    /\ src' = s
    /\ UNCHANGED fs

\* The same for a function that works on the files.
FinishFile(op, a, kw, r, rnd, s) ==
    /\ call' = Called(op, a, kw, r, rnd)
    /\ ret' = Out(r)
    /\ eff' = r.eff
    /\ src' = s
    /\ fs' = r.fs

\* The last call and what was done to its result.
From(kind, tail) == [call |-> call, kind |-> kind, tail |-> tail]

Encrypt ==
    \E plaintext \in Plaintexts, code \in Codes, mode \in ModeArgs, rnd \in Rnds :
        /\ Idle
        /\ Finish("encrypt", <<plaintext, code, mode>>, {},
                  encrypt(plaintext, code, mode, rnd), rnd, NoSrc)

Decrypt ==
    \E c \in (IF HasBlob THEN Armored(ret.val.v) ELSE Junk),
       code \in Codes, kw \in DecryptKw :
        /\ Idle \/ HasBlob
        /\ kw # {} => c.kind \in {"none", "junk"}
        /\ Finish("decrypt", <<c.buf, code>>, kw, decrypt(c.buf, code, kw), 0,
                  IF HasBlob THEN From(c.kind, <<>>) ELSE NoSrc)

\* A type object as a value.
PyType(t) == [t |-> "type", v |-> TypeName(t)]

\* Arguments of get_hash_blake2b.
DigestSizes == {PyInt(0), PyInt(1), PyInt(DIGEST_SIZE), PyInt(64), PyInt(65),
                PyStr(<<51, 50>>)}

SaltArgs == {PyNone, PyBytes(get_salt(1)), PyBytes(<<1>>),
             PyBytes([i \in 1..(SALT_SIZE + 1) |-> i])}

\* The pair get_hash_blake2b returns as an outcome: val the hash, meta the salt.
HashOutcome(h) ==
    IF h.exc # "" THEN Raise(h.exc, "", h.eff)
    ELSE [exc |-> "", cause |-> "", err |-> "", val |-> PyBytes(h.hash),
          meta |-> [salt |-> h.salt], eff |-> h.eff]

GetHash ==
    \E value \in Codes, digest_size \in DigestSizes, salt \in SaltArgs, rnd \in Rnds :
        /\ Idle
        /\ Finish("get_hash_blake2b", <<value, digest_size, salt>>, {},
                  HashOutcome(get_hash_blake2b(value, digest_size, salt, rnd)), rnd, NoSrc)

MeFromValue ==
    \E value \in Lookups :
        /\ Idle
        /\ Finish("me_from_value", <<value>>, {}, me_from_value(value), 0, NoSrc)

MeFromName ==
    \E name \in Lookups :
        /\ Idle
        /\ Finish("me_from_name", <<name>>, {}, me_from_name(name), 0, NoSrc)

\* Salts and hashes given to make_meta: what the generator and the hash
\* yield, and runs of one byte.
MetaSalts == {get_salt(r) : r \in Rnds} \cup {[i \in 1..SALT_SIZE |-> 255]}

MetaHashes == {blake2b(<<107>>, DIGEST_SIZE, get_salt(r)) : r \in Rnds}
              \cup {[i \in 1..DIGEST_SIZE |-> 0]}

MakeMeta ==
    \E plaintext_type \in {"str", "bytes", "int"}, hash_code \in MetaHashes,
       salt \in MetaSalts, mode \in Modes :
        /\ Idle
        /\ Finish("make_meta", <<PyType(plaintext_type), PyBytes(hash_code),
                                 PyBytes(salt), mode>>, {},
                  make_meta(plaintext_type, hash_code, salt, mode), 0, NoSrc)

\* Ciphertexts put after a metadata string, the empty one included.
Tails == {b.v : b \in ByteStrings}

\* Buffers handed to read_meta: after encrypt, the envelope's bytes; after
\* make_meta, the metadata string and a ciphertext; else bytes of no envelope.
Buffers ==
    IF HasBlob THEN { t @@ [tail |-> <<>>] : t \in Tampers(b64decode(ret.val.v).val) }
    ELSE IF HasMeta
    THEN UNION { { [kind |-> t.kind, buf |-> t.buf \o c, tail |-> c] :
                     t \in Tampers(ret.val.v) } : c \in Tails }
    ELSE { [kind |-> "junk", buf |-> x, tail |-> <<>>] :
             x \in {<<>>, S_STR, S_STR \o S_ECB} }

ReadMeta ==
    \E b \in Buffers :
        /\ Idle \/ HasBlob \/ HasMeta
        /\ Finish("read_meta", <<PyBytes(b.buf)>>, {}, read_meta(b.buf), 0,
                  IF Idle THEN NoSrc ELSE From(b.kind, b.tail))

Next == Encrypt \/ Decrypt \/ GetHash \/ MeFromValue \/ MeFromName \/ MakeMeta \/ ReadMeta

Spec == Init /\ [][Next]_vars

\* ------------------------------------------------------------ file actions

\* Longest file _encrypt_file is given.
MaxFile == 4

\* What a file holds at the start: 'A', a byte that is no UTF-8, or nothing.
StartFiles == {PyNone, PyBytes(<<65>>), PyBytes(<<255>>)}

InitFile ==
    /\ call = NoCall
    /\ ret = Out(Return(PyNone, NoEff))
    /\ eff = NoEff
    /\ fs \in [Paths -> StartFiles]
    /\ src = NoSrc

\* Passphrases of the file functions: 'k', 'x' and ''; files are encrypted
\* under 'k' and ''.
FileCodes == {PyStr(<<107>>), PyStr(<<120>>), PyStr(<<>>)}

\* The files' behaviours take the mode's default, ECB, and one mode more.
FileModes == {PyMode(S_ECB), PyMode(S_CTR)}

OutputPaths == Paths \cup {PyNone}

PathA == PyStr(<<97>>)

PathB == PyStr(<<98>>)

\* src.call.a holds the files as they were before the call: a's, then b's.
Before == [call |-> [NoCall EXCEPT !.a = <<fs[PathA], fs[PathB]>>],
           kind |-> "fs", tail |-> <<>>]

LoadFile ==
    \E filepath \in Paths, binary \in BOOLEAN :
        /\ filepath \in DOMAIN fs
        /\ FinishFile("load_file", <<filepath, IF binary THEN PyInt(1) ELSE PyInt(0)>>, {},
                   WithFiles(load_file(fs, filepath, binary), fs), 0, Before)

SaveFile ==
    \E filepath \in Paths, kw \in FileKw,
       data \in {PyStr(<<65>>), PyBytes(<<255>>), PyStr(<<55296>>), PyNone} :
        /\ filepath \in DOMAIN fs
        /\ FinishFile("save_file", <<filepath, data>>, kw,
                   save_file(fs, filepath, data, kw), 0, Before)

EncryptFile ==
    \E input_path \in Paths, output_path \in OutputPaths, code \in FileCodes,
       mode \in FileModes, kw \in FileKw, rnd \in Rnds :
        /\ Len(FileAt(fs, input_path).v) <= MaxFile
        /\ code # PyStr(<<120>>)
        /\ kw # {} \/ mode # PyMode(S_ECB) => output_path = PyNone /\ rnd = 1
        /\ FinishFile("_encrypt_file", <<input_path, output_path, code, mode>>, kw,
                      encrypt_file(fs, input_path, output_path, code, mode, kw, rnd),
                      rnd, Before)

DecryptFile ==
    \E input_path \in Paths, output_path \in OutputPaths, code \in FileCodes,
       kw \in FileKw :
        /\ kw # {} => output_path = PyNone
        /\ FinishFile("_decrypt_file", <<input_path, output_path, code>>, kw,
                      decrypt_file(fs, input_path, output_path, code, kw), 0, Before)

NextFile == LoadFile \/ SaveFile \/ EncryptFile \/ DecryptFile

SpecFile == InitFile /\ [][NextFile]_vars

\* ------------------------------------------------------------------ claims

ECB == PyMode(S_ECB)

\* The mode tags as bytes.
ModeTags == {Members[i].value : i \in DOMAIN Members}

\* The buffer is no envelope: shorter than the metadata string, or its type
\* tag is not STR or BYT, or its mode tag is no member's.
Malformed(buf) ==
    \/ Len(buf) < META_LEN
    \/ Slice(buf, 0, 3) \notin {S_STR, S_BYT}
    \/ Slice(buf, 3, 6) \notin ModeTags

\* c is base64 of some bytes.
IsArmored(c) == c.t = "bytes" /\ c.v # <<>> /\ b64decode(c.v).exc = ""

\* c is a well-formed blob.
WellFormedBlob(c) == IsArmored(c) /\ ~Malformed(b64decode(c.v).val)

\* The passphrase is a str that UTF-8 can encode.
Encodable(x) == x.t = "str" /\ str_encode(x.v).exc = ""

\* The key of the passphrase with the salt stored in blob c differs from the
\* hash stored there.
Mismatch(c, code) ==
    /\ WellFormedBlob(c)
    /\ Encodable(code)
    /\ blake2b(str_encode(code.v).val, DIGEST_SIZE, Slice(b64decode(c.v).val, 6, 22))
       # Slice(b64decode(c.v).val, 22, META_LEN)

\* A payload encrypt takes: text or bytes, not empty.
IsPayload(x) == x.t \in {"str", "bytes"} /\ x.v # <<>>

\* A passphrase encrypt takes: a str, not empty.
IsCode(x) == x.t = "str" /\ x.v # <<>>

\* The last call is decrypt of what encrypt returned, with the same code.
RoundTrip ==
    /\ call.op = "decrypt" /\ call.kw = {}
    /\ src.call.op = "encrypt" /\ src.kind = "none"
    /\ src.call.a[3] = ECB
    /\ call.a[2] = src.call.a[2]

\* The type tag of the envelope in the blob b.
TypeTag(b) == Slice(b64decode(b.v).val, 0, 3)

\* C1 as stated: for every non-empty payload p (text or bytes) and every
\* non-empty passphrase c, encrypt(p, code=c, mode=ECB) gives a blob, and
\* decrypt of it with c gives a value equal to p and of p's kind, a bytes
\* payload being tagged BYT.
C1_RoundTripAnyText ==
    /\ (call.op = "encrypt" /\ IsPayload(call.a[1]) /\ IsCode(call.a[2])
        /\ call.a[3] = ECB)
       => /\ ret.exc = ""
          /\ TypeTag(ret.val) = IF call.a[1].t = "bytes" THEN S_BYT ELSE S_STR
    /\ RoundTrip => ret.exc = "" /\ ret.val = src.call.a[1]

\* The payload is bytes, or text UTF-8 can encode (no lone surrogate).
EncodablePayload(x) == x.t = "bytes" \/ Encodable(x)

\* C1 as amended: the same for every non-empty payload that is bytes or text
\* UTF-8 can encode, and every non-empty passphrase UTF-8 can encode.
C1_RoundTrip ==
    /\ (call.op = "encrypt" /\ IsPayload(call.a[1]) /\ IsCode(call.a[2])
        /\ EncodablePayload(call.a[1]) /\ Encodable(call.a[2])
        /\ call.a[3] = ECB)
       => /\ ret.exc = ""
          /\ TypeTag(ret.val) = IF call.a[1].t = "bytes" THEN S_BYT ELSE S_STR
    /\ RoundTrip => ret.exc = "" /\ ret.val = src.call.a[1]

\* Bytes that are no UTF-8 came back from a round trip as the bytes they were.
C1_Witness ==
    /\ RoundTrip
    /\ src.call.a[1] = PyBytes(<<255, 0>>)
    /\ ret.val = PyBytes(<<255, 0>>)

\* C2: decrypt of a well-formed blob with a passphrase whose key, derived
\* with the header's salt, differs from the stored hash raises
\* MetaStringError('passphrases do not match') and never calls do_decrypt.
C2_MismatchDetected ==
    (call.op = "decrypt" /\ call.kw = {} /\ Mismatch(call.a[1], call.a[2]))
    => /\ ret.exc = "MetaStringError"
       /\ ret.cause = ""
       /\ eff.do_decrypt = 0

\* A blob of encrypt was decrypted with another passphrase.
C2_Witness ==
    /\ call.op = "decrypt" /\ call.kw = {}
    /\ src.call.op = "encrypt" /\ src.kind = "none"
    /\ src.call.a[2] = PyStr(<<107>>)
    /\ call.a[2] = PyStr(<<233, 107>>)
    /\ ret.exc = "MetaStringError"

\* C3 as stated: decrypt called with ignore_mismatch=True on a well-formed
\* blob and a passphrase that does not match calls do_decrypt with the
\* derived key and returns without raising.
C3_IgnoreMismatch ==
    (call.op = "decrypt" /\ "ignore_mismatch" \in call.kw
     /\ Mismatch(call.a[1], call.a[2]))
    => /\ ret.exc = ""
       /\ eff.do_decrypt = 1

\* C4: read_meta never raises, and for a buffer shorter than 54 bytes, or
\* whose type tag is not STR or BYT, or whose mode tag is no member's, it
\* returns an error, no ciphertext and no metadata; decrypt of such a buffer
\* raises MetaStringError from that error without deriving a key or calling
\* do_decrypt.
C4_EnvelopeIntegrity ==
    /\ call.op = "read_meta"
       => /\ ret.exc = ""
          /\ Malformed(call.a[1].v)
             => /\ ret.err # ""
                /\ ret.val = PyBytes(<<>>)
                /\ DOMAIN ret.meta = {}
    /\ (call.op = "decrypt" /\ call.kw = {} /\ IsArmored(call.a[1])
        /\ Malformed(b64decode(call.a[1].v).val))
       => /\ ret.exc = "MetaStringError"
          /\ ret.cause # ""
          /\ eff.derive = 0
          /\ eff.do_decrypt = 0

\* decrypt was given an envelope whose mode tag is no member's.
C4_Witness ==
    /\ call.op = "decrypt" /\ call.kw = {}
    /\ src.kind = "mode"
    /\ Len(b64decode(call.a[1].v).val) >= META_LEN
    /\ ret.exc = "MetaStringError"
    /\ ret.cause = "ValueError"

\* The member whose value is x.
MemberOfValue(x) == PyMode(Members[CHOOSE i \in DOMAIN Members : Members[i].value = x].name)

\* C5: me_from_value of a member's tag and me_from_name of its name give the
\* member, no two members share a tag, and any other argument raises
\* ValueError('Unknown encrypt mode') instead of giving a mode or None.
C5_RegistryBijection ==
    /\ \A i, j \in DOMAIN Members : i # j => Members[i].value # Members[j].value
    /\ call.op = "me_from_value"
       => IF call.a[1].t = "str" /\ call.a[1].v \in ModeTags
          THEN ret.exc = "" /\ ret.val = MemberOfValue(call.a[1].v)
               /\ ModeValue(ret.val) = call.a[1].v
          ELSE ret.exc = "ValueError"
    /\ call.op = "me_from_name"
       => IF call.a[1].t = "str" /\ call.a[1].v \in MemberNames
          THEN ret.exc = "" /\ ret.val = PyMode(call.a[1].v)
          ELSE ret.exc = "ValueError"

\* A name that is no member's was looked up.
C5_Witness ==
    /\ call.op = "me_from_name"
    /\ call.a[1] = PyStr(<<101, 99, 98>>)
    /\ ret.exc = "ValueError"

\* C6: encrypt given a plaintext that is empty or neither text nor bytes, a
\* code that is empty or no str, or a mode that is no member raises
\* ValueError, and in that call no salt is drawn, no key derived and
\* do_encrypt not called.
C6_FailFast ==
    (call.op = "encrypt"
     /\ (~IsPayload(call.a[1]) \/ ~IsCode(call.a[2]) \/ call.a[3] \notin Modes))
    => /\ ret.exc = "ValueError"
       /\ eff.urandom = 0
       /\ eff.derive = 0
       /\ eff.do_encrypt = 0

\* encrypt was given a good plaintext and an empty code.
C6_Witness ==
    /\ call.op = "encrypt"
    /\ IsPayload(call.a[1])
    /\ call.a[2] = PyStr(<<>>)
    /\ call.a[3] = ECB
    /\ ret.exc = "ValueError"

\* C7 as stated: get_hash_blake2b raises ValueError when the passphrase is
\* empty or digest_size is outside 1..64, drawing no salt and returning no
\* key; and decrypt of a well-formed blob with an empty passphrase raises
\* ValueError, not the mismatch error.
C7_DerivePreconditions ==
    /\ (call.op = "get_hash_blake2b" /\ call.a[1].t = "str" /\ call.a[2].t = "int"
        /\ (call.a[1].v = <<>> \/ call.a[2].v[1] < 1 \/ call.a[2].v[1] > 64))
       => /\ ret.exc = "ValueError"
          /\ eff.urandom = 0
          /\ ret.val = PyNone
    /\ (call.op = "decrypt" /\ call.kw = {} /\ WellFormedBlob(call.a[1])
        /\ call.a[2] = PyStr(<<>>))
       => ret.exc = "ValueError"

\* The metadata string returned is laid out as the call's arguments.
LaidOut ==
    /\ Len(ret.val.v) = META_LEN
    /\ Slice(ret.val.v, 0, 3) = (IF call.a[1] = PyType("str") THEN S_STR ELSE S_BYT)
    /\ Slice(ret.val.v, 3, 6) = ModeValue(call.a[4])
    /\ Slice(ret.val.v, 6, 22) = call.a[3].v
    /\ Slice(ret.val.v, 22, META_LEN) = call.a[2].v

\* read_meta was given what make_meta returned and a ciphertext after it.
MetaRoundTrip ==
    /\ call.op = "read_meta"
    /\ src.call.op = "make_meta" /\ src.kind = "none"

\* C9: for the type str or bytes, every mode, every salt of 16 bytes and hash
\* of 32, make_meta returns 54 bytes: type tag [0,3), mode tag [3,6), salt
\* [6,22), hash [22,54); and read_meta of them with any ciphertext after
\* (the empty one too) returns no error, those four fields and that
\* ciphertext.
C9_HeaderRoundTrip ==
    /\ (call.op = "make_meta" /\ call.a[1] \in {PyType("str"), PyType("bytes")})
       => ret.exc = "" /\ LaidOut
    /\ MetaRoundTrip
       => /\ ret.exc = "" /\ ret.err = ""
          /\ DOMAIN ret.meta = {"source_type", "mode", "salt", "hash_code"}
          /\ PyType(ret.meta.source_type) = src.call.a[1]
          /\ ret.meta.mode = src.call.a[4]
          /\ ret.meta.salt = src.call.a[3].v
          /\ ret.meta.hash_code = src.call.a[2].v
          /\ ret.val = PyBytes(src.tail)

\* A metadata string of mode OFB with no ciphertext after it was read.
C9_Witness ==
    /\ MetaRoundTrip
    /\ src.tail = <<>>
    /\ src.call.a[1] = PyType("bytes")
    /\ src.call.a[4] = PyMode(S_OFB)
    /\ ret.err = ""

\* The files as they were before the last call.
FilesBefore == [p \in Paths |-> IF p = PathA THEN src.call.a[1] ELSE src.call.a[2]]

\* The last call is a file function called with its own keywords only.
FileCall == call.op \in {"_encrypt_file", "_decrypt_file"} /\ call.kw = {}

\* C8 as stated: a file write without overwrite leaves every file that
\* exists as it is: save_file, _encrypt_file and _decrypt_file never replace
\* an existing file, the input file when output_path is None included.
C8_OverwriteGuard ==
    (call.op \in {"save_file", "_encrypt_file", "_decrypt_file"}
     /\ "overwrite" \notin call.kw)
    => \A p \in Paths : FilesBefore[p] # PyNone => fs[p] = FilesBefore[p]

\* Loading the input or the encrypt or decrypt step fails, given the files
\* before the call.
FailsBeforeSave ==
    IF call.op = "_encrypt_file"
    THEN \/ load_file(FilesBefore, call.a[1], FALSE).exc # ""
         \/ encrypt(load_file(FilesBefore, call.a[1], FALSE).val,
                    call.a[3], call.a[4], 1).exc # ""
    ELSE \/ load_file(FilesBefore, call.a[1], TRUE).exc # ""
         \/ decrypt(load_file(FilesBefore, call.a[1], TRUE).val, call.a[3], {}).exc # ""

====
